---- MODULE Spec2Model ----
(***************************************************************************)
(* FileLogger (src/src/core/logging/FileLogger.ts): a persistent log       *)
(* writer with an in-memory pending queue, a single-flight drain, a        *)
(* size-based rotation run at start-up and a dispose() operation.          *)
(*                                                                         *)
(* The model follows the cooperative scheduling of the JavaScript runtime: *)
(* an async function runs without interruption up to its next `await`;     *)
(* every `await` is a point where other tasks (new log() calls, dispose(), *)
(* acknowledgments of the file system) may run.  A task is described by    *)
(* its position (initPc, dispPc, the pc of each log() call in `logs`).     *)
(***************************************************************************)
EXTENDS Integers, Sequences, FiniteSets, TLC

\* ---------------------------------------------------------------- bounds
MaxLogs == 2            \* log() calls issued by callers in one session
MaxRotSessions == 6     \* writer instances constructed one after the other (SpecRot)
MaxStartSessions == 4   \* the same, with failures of the rotation check (SpecStart)
ShortLine == 1          \* byte length of an ordinary formatted line

\* ------------------------------------------------------ program constants
MaxLogFileSize == 10 * 1024 * 1024
MaxLogFiles == 5

Levels == {"INFO", "ERROR"}
HugeLine == MaxLogFileSize + 1
LineLens == {ShortLine, HugeLine}

VARIABLES
    session,        \* number of the writer instance (process run)
    fs,             \* the log directory: slot 0 is the active file, slot i is generation .i
    rotatedOut,     \* files that were renamed from the active name to .1, oldest first
    isInitialized,  \* FileLogger.isInitialized
    logStream,      \* FileLogger.logStream is defined
    streamSt,       \* state of the WriteStream: none, open, ending, closed
    streamBad,      \* the stream failed to open: every write on it fails
    streamQ,        \* writes handed to the stream and not yet acknowledged
    isWriting,      \* FileLogger.isWriting
    writeQueue,     \* FileLogger.writeQueue
    initPc,         \* position of initialize()
    dispPc,         \* position of dispose()
    logs,           \* the log() calls of callers that have not returned yet
    nextId,         \* identity of the next formatted line (lines are numbered as pushed)
    early,          \* number of lines pushed before the writer became ready
    written,        \* lines persisted in the active file by this instance, in order
    handed,         \* lines passed to stream.write by this instance, in order
    lost,           \* lines shifted off the queue and not passed to the stream
    failed,         \* writes whose callback carried an error
    console,        \* log() calls whose record was emitted by console.log
    errs,           \* reports made through console.error
    raised,         \* tasks whose promise was rejected towards their caller
    ioFail,         \* the environment failed an operation (write, open, end)
    dispReady,      \* isInitialized at the moment dispose() was called
    dispSnap,       \* lines in the pending queue at the moment dispose() was called
    closingId       \* identity of the closing record pushed by dispose(), 0 if none

vars == <<session, fs, rotatedOut, isInitialized, logStream, streamSt, streamBad,
          streamQ, isWriting, writeQueue, initPc, dispPc, logs, nextId, early,
          written, handed, lost, failed, console, errs, raised, ioFail,
          dispReady, dispSnap, closingId>>

fsVars == <<fs, rotatedOut>>
streamVars == <<logStream, streamSt, streamBad>>
histVars == <<early, dispReady, dispSnap, closingId>>

NoFile == [gen |-> 0, size |-> 0]
Range(s) == {s[i] : i \in DOMAIN s}
Ids(s) == {s[i].id : i \in DOMAIN s}
RemoveAt(s, i) == SubSeq(s, 1, i - 1) \o SubSeq(s, i + 1, Len(s))

\* the tasks that can own a drain
InitTask == [kind |-> "init", id |-> 0]
DispTask == [kind |-> "disp", id |-> 0]
LogTask(id) == [kind |-> "log", id |-> id]

\* ------------------------------------------------------------------ rotation
\* rotateLogFiles, lines 114-131: the loop over i = maxLogFiles - 1 down to 1.
\* `fails` is the set of steps whose file-system operation fails (0 is the rename
\* of the active file); a step whose file is absent or whose operation fails is
\* skipped by the empty catch.
RECURSIVE ShiftGenerations(_, _, _)
ShiftGenerations(f, i, fails) ==
    IF i < 1 THEN f
    ELSE LET g == IF f[i].gen = 0 \/ i \in fails THEN f
                  ELSE IF i = MaxLogFiles - 1 THEN [f EXCEPT ![i] = NoFile]
                  ELSE [f EXCEPT ![i + 1] = f[i], ![i] = NoFile]
         IN  ShiftGenerations(g, i - 1, fails)

\* rotateLogFiles, lines 133-139: does the rename of the active file to .1 succeed
MainRenameOk(f, fails) == f[0].gen # 0 /\ 0 \notin fails

\* rotateLogFiles as a whole: the directory after the rotation
RotateLogFiles(f, fails) ==
    LET g == ShiftGenerations(f, MaxLogFiles - 1, fails)
    IN  IF MainRenameOk(g, fails) THEN [g EXCEPT ![1] = g[0], ![0] = NoFile] ELSE g

\* The size of the active file after a write of `len` bytes.  The only use of a
\* size is the comparison of line 93, so the sizes above the threshold are all
\* represented by MaxLogFileSize + 1.
SizeAfterWrite(size, len) ==
    IF size + len > MaxLogFileSize THEN MaxLogFileSize + 1 ELSE size + len

\* a rotation check whose stat error reaches the catch of initialize (lines 80-83)
StatErrorEscapes == FALSE

\* checkAndRotateLog, lines 96-101: an error of stat is caught by the rotation
\* check (and reported unless it is ENOENT)
CatchesStatError == TRUE

\* checkAndRotateLog, line 93
NeedsRotation(size) == size > MaxLogFileSize

\* --------------------------------------------------------------- the drain
\* a log() that keeps the line only when the writer is ready
EnqueueIfReady(q, line, ready) == IF ready THEN Append(q, line) ELSE q

\* log, line 191: the formatted line is appended to the queue, ready or not
Enqueue(q, line, ready) == Append(q, line)

\* a drain that reads the head of the queue and leaves it there
PeekLine(q) == [line |-> Head(q), rest |-> q]

\* a drain that takes the newest line first
PopLine(q) == [line |-> q[Len(q)], rest |-> SubSeq(q, 1, Len(q) - 1)]

\* processWriteQueue, line 158: the line taken by one iteration, and what is left
ShiftLine(q) == [line |-> Head(q), rest |-> Tail(q)]

\* processWriteQueue without its single-flight guard
ReturnsEarlyUnguarded(writing, ready, q) == ~ready \/ Len(q) = 0

\* processWriteQueue entered whether the writer is ready or not
ReturnsEarlyIgnoringReady(writing, ready, q) == writing \/ Len(q) = 0

\* processWriteQueue, line 150: the single-flight guard and the other early returns
ReturnsEarly(writing, ready, q) == writing \/ ~ready \/ Len(q) = 0

\* a drain without the catch of line 168
WriteErrorEscapes == FALSE

\* processWriteQueue, lines 168-169: a rejected write is caught inside the drain
CatchesWriteError == TRUE

\* a catch that puts the failed line back at the head of the queue
RequeueFailedLine(q, w) == <<[id |-> w.id, len |-> w.len]>> \o q

\* a catch that empties the queue
DropQueueOnFailure(q, w) == <<>>

\* processWriteQueue, lines 168-171: the queue after a failed write; the catch
\* touches neither the queue nor the failed line
QueueAfterFailedWrite(q, w) == q

\* One run of the loop of lines 157-167 by task `owner`, from the loop test up to
\* the next suspension on a write (susp) or to the end of the loop.  With no stream
\* object (line 159) every line is shifted off and none is written.
DrainLoop(owner, q, sq, ls, st) ==
    IF Len(q) = 0
    THEN [q |-> q, sq |-> sq, susp |-> FALSE, wrote |-> <<>>, lost |-> {}]
    ELSE IF ls
    THEN LET s == ShiftLine(q)
         IN  [q |-> s.rest,
              sq |-> Append(sq, [id |-> s.line.id, len |-> s.line.len,
                                 owner |-> owner, dead |-> st # "open"]),
              susp |-> TRUE, wrote |-> <<s.line.id>>, lost |-> {}]
    ELSE [q |-> <<>>, sq |-> sq, susp |-> FALSE, wrote |-> <<>>, lost |-> Ids(q)]

\* a drain that writes one line and returns (`if` in place of `while`)
StopsAfterOneLine(owner, q, sq, ls, st) ==
    [q |-> q, sq |-> sq, susp |-> FALSE, wrote |-> <<>>, lost |-> {}]

\* processWriteQueue, lines 157 and 167: after an acknowledged write the loop
\* goes back to its test
NextIteration(owner, q, sq, ls, st) == DrainLoop(owner, q, sq, ls, st)

\* processWriteQueue called by task `owner`, up to its first suspension or its return
ProcessWriteQueue(owner, writing, ready, q, sq, ls, st) ==
    IF ReturnsEarly(writing, ready, q)
    THEN [q |-> q, sq |-> sq, susp |-> FALSE, wrote |-> <<>>, lost |-> {},
          writing |-> writing]
    ELSE LET r == DrainLoop(owner, q, sq, ls, st)
         IN  [q |-> r.q, sq |-> r.sq, susp |-> r.susp, wrote |-> r.wrote,
              lost |-> r.lost, writing |-> r.susp]

\* log, lines 188-196, called by task `owner`: push the line, then drain if ready
LogBody(owner, len, writing, ready, q, sq, ls, st) ==
    LET q1 == Enqueue(q, [id |-> nextId, len |-> len], ready)
    IN  IF ready THEN ProcessWriteQueue(owner, writing, ready, q1, sq, ls, st)
        ELSE [q |-> q1, sq |-> sq, susp |-> FALSE, wrote |-> <<>>, lost |-> {},
              writing |-> writing]

\* log, line 199
EmitsToConsole(level) == level \in {"ERROR", "WARN"}

\* a dispose() that logs its closing record whatever the state of the writer
AlwaysLogsClosingRecord(ready) == TRUE

\* dispose, line 240: the closing record is logged only by a ready writer
LogsClosingRecord(ready) == ready

\* a dispose() that forgets line 257
StaysReadyAfterDispose == TRUE

\* dispose, line 257: the value of isInitialized once the stream is closed
ReadyAfterDispose == FALSE

\* dispose, line 247: the stream is closed only if there is one
ClosesStream(ls) == ls

\* ------------------------------------------------------------ the state machine
Init ==
    /\ session = 1
    /\ fs = [i \in 0..MaxLogFiles |-> NoFile]
    /\ rotatedOut = <<>>
    /\ isInitialized = FALSE
    /\ logStream = FALSE
    /\ streamSt = "none"
    /\ streamBad = FALSE
    /\ streamQ = <<>>
    /\ isWriting = FALSE
    /\ writeQueue = <<>>
    /\ initPc = "mkdir"
    /\ dispPc = "idle"
    /\ logs = {}
    /\ nextId = 1
    /\ early = 0
    /\ written = <<>>
    /\ handed = <<>>
    /\ lost = {}
    /\ failed = {}
    /\ console = {}
    /\ errs = {}
    /\ raised = {}
    /\ ioFail = FALSE
    /\ dispReady = FALSE
    /\ dispSnap = {}
    /\ closingId = 0

\* the effect of a (partial) run of processWriteQueue on the writer and the stream
ApplyDrain(r) ==
    /\ writeQueue' = r.q
    /\ streamQ' = r.sq
    /\ isWriting' = r.writing
    /\ handed' = handed \o r.wrote
    /\ lost' = lost \cup r.lost

\* the task `owner` is resumed by its drain: it stays suspended on the next write
\* (susp) or processWriteQueue returns to it
ResumeOwner(owner, susp) ==
    /\ initPc' = IF owner.kind = "init" /\ ~susp
                 THEN (IF initPc = "drain" THEN "ret1" ELSE "logRet")
                 ELSE initPc
    /\ dispPc' = IF owner.kind = "disp" /\ ~susp
                 THEN (IF dispPc = "drain" THEN "ret1" ELSE "logRet")
                 ELSE dispPc
    /\ logs' = IF owner.kind = "log" /\ ~susp
               THEN {IF t.id = owner.id THEN [t EXCEPT !.pc = "ret"] ELSE t : t \in logs}
               ELSE logs

\* constructor + initialize, line 56: mkdir is acknowledged
MkdirAck(ok) ==
    /\ initPc = "mkdir"
    /\ IF ok
       THEN /\ initPc' = "stat"
            /\ UNCHANGED <<errs, ioFail, isInitialized>>
       ELSE /\ initPc' = "failed"
            /\ errs' = errs \cup {"init"}
            /\ ioFail' = TRUE
            /\ isInitialized' = FALSE
    /\ UNCHANGED <<session, fsVars, streamVars, streamQ, isWriting, writeQueue, dispPc,
                   logs, nextId, written, handed, lost, failed, console, raised, histVars>>

\* checkAndRotateLog, lines 91-101: stat is acknowledged
StatAck(ok) ==
    /\ initPc = "stat"
    /\ IF ~ok
       THEN /\ ioFail' = TRUE
            /\ IF CatchesStatError
               THEN /\ initPc' = "open"
                    /\ errs' = errs \cup {"stat"}
                    /\ UNCHANGED isInitialized
               ELSE /\ initPc' = "failed"
                    /\ errs' = errs \cup {"init"}
                    /\ isInitialized' = FALSE
       ELSE /\ initPc' = IF fs[0].gen # 0 /\ NeedsRotation(fs[0].size)
                         THEN "rotate" ELSE "open"
            /\ UNCHANGED <<errs, ioFail, isInitialized>>
    /\ UNCHANGED <<session, fsVars, streamVars, streamQ, isWriting,
                   writeQueue, dispPc, logs, nextId, written, handed, lost, failed,
                   console, raised, histVars>>

\* a rotation that also runs on a ready writer whose active file has grown past
\* the threshold
RotateWhileOpen(fails) ==
    /\ \/ initPc = "rotate"
       \/ isInitialized /\ fs[0].gen # 0 /\ NeedsRotation(fs[0].size)
    /\ initPc' = IF initPc = "rotate" THEN "open" ELSE initPc
    /\ fs' = RotateLogFiles(fs, fails)
    /\ rotatedOut' = rotatedOut
    /\ ioFail' = (ioFail \/ fails # {})
    /\ UNCHANGED <<session, isInitialized, streamVars, streamQ, isWriting, writeQueue,
                   dispPc, logs, nextId, written, handed, lost, failed, console,
                   errs, raised, histVars>>

\* rotateLogFiles, lines 107-144, with the operations of `fails` failing
RotateAck(fails) ==
    /\ initPc = "rotate"
    /\ initPc' = "open"
    /\ fs' = RotateLogFiles(fs, fails)
    /\ LET g == ShiftGenerations(fs, MaxLogFiles - 1, fails)
       IN  IF MainRenameOk(g, fails)
           THEN rotatedOut' = Append(rotatedOut, fs[0].gen) /\ errs' = errs
           ELSE rotatedOut' = rotatedOut /\ errs' = errs \cup {"rotate"}
    /\ ioFail' = (ioFail \/ fails # {})
    /\ UNCHANGED <<session, isInitialized, streamVars, streamQ, isWriting, writeQueue,
                   dispPc, logs, nextId, written, handed, lost, failed, console,
                   raised, histVars>>

\* initialize, lines 62-72: the stream is created (`bad`: it will fail to open),
\* the writer is marked ready and the pending queue is drained
OpenStream(bad) ==
    /\ initPc = "open"
    /\ logStream' = TRUE
    /\ streamSt' = "open"
    /\ streamBad' = bad
    /\ fs' = IF ~bad /\ fs[0].gen = 0
             THEN [fs EXCEPT ![0] = [gen |-> session, size |-> 0]] ELSE fs
    /\ isInitialized' = TRUE
    /\ early' = nextId - 1
    /\ ioFail' = (ioFail \/ bad)
    /\ LET r == ProcessWriteQueue(InitTask, isWriting, TRUE, writeQueue, streamQ,
                                  TRUE, "open")
       IN  /\ ApplyDrain(r)
           /\ initPc' = IF r.susp THEN "drain" ELSE "ret1"
    /\ UNCHANGED <<session, rotatedOut, dispPc, logs, nextId, written, failed, console,
                   errs, raised, dispReady, dispSnap, closingId>>

\* initialize, lines 75-78: the record of the successful initialization is logged
InitRet1 ==
    /\ initPc = "ret1"
    /\ LET r == LogBody(InitTask, ShortLine, isWriting, isInitialized, writeQueue,
                        streamQ, logStream, streamSt)
       IN  /\ ApplyDrain(r)
           /\ initPc' = IF r.susp THEN "logDrain" ELSE "logRet"
    /\ nextId' = nextId + 1
    /\ UNCHANGED <<session, fsVars, isInitialized, streamVars, dispPc, logs, written,
                   failed, console, errs, raised, ioFail, histVars>>

\* initialize, line 79: initialize returns
InitLogRet ==
    /\ initPc = "logRet"
    /\ initPc' = "done"
    /\ UNCHANGED <<session, fsVars, isInitialized, streamVars, streamQ, isWriting,
                   writeQueue, dispPc, logs, nextId, written, handed, lost, failed,
                   console, errs, raised, ioFail, histVars>>

\* log, lines 178-202, called by a caller: up to the await of line 195, or to the
\* end when the writer is not ready
LogCall(level, len) ==
    /\ nextId <= MaxLogs
    /\ LET r == LogBody(LogTask(nextId), len, isWriting, isInitialized, writeQueue,
                        streamQ, logStream, streamSt)
       IN  /\ ApplyDrain(r)
           /\ IF isInitialized
              THEN /\ logs' = logs \cup {[id |-> nextId, level |-> level,
                                          pc |-> IF r.susp THEN "drain" ELSE "ret"]}
                   /\ console' = console
              ELSE /\ logs' = logs
                   /\ console' = IF EmitsToConsole(level)
                                 THEN console \cup {nextId} ELSE console
    /\ nextId' = nextId + 1
    /\ UNCHANGED <<session, fsVars, isInitialized, streamVars, initPc, dispPc, written,
                   failed, errs, raised, ioFail, histVars>>

\* log, lines 198-202: after the await of line 195
LogReturn(t) ==
    /\ t \in logs
    /\ t.pc = "ret"
    /\ logs' = logs \ {t}
    /\ console' = IF EmitsToConsole(t.level) THEN console \cup {t.id} ELSE console
    /\ UNCHANGED <<session, fsVars, isInitialized, streamVars, streamQ, isWriting,
                   writeQueue, initPc, dispPc, nextId, written, handed, lost, failed,
                   errs, raised, ioFail, histVars>>

\* processWriteQueue, lines 160-172: the callback of a write is called, with an
\* error or not, and the drain that awaits it goes on
WriteAck(i, ok) ==
    /\ i \in DOMAIN streamQ
    /\ i = 1 \/ streamQ[i].dead
    /\ ok => (~streamQ[i].dead /\ ~streamBad)
    /\ LET w == streamQ[i]
           sq1 == RemoveAt(streamQ, i)
       IN  IF ok
           THEN LET r == NextIteration(w.owner, writeQueue, sq1, logStream, streamSt)
                IN  /\ written' = Append(written, w.id)
                    /\ fs' = IF fs[0].gen # 0
                             THEN [fs EXCEPT ![0].size = SizeAfterWrite(@, w.len)] ELSE fs
                    /\ writeQueue' = r.q
                    /\ streamQ' = r.sq
                    /\ isWriting' = r.susp
                    /\ handed' = handed \o r.wrote
                    /\ lost' = lost \cup r.lost
                    /\ ResumeOwner(w.owner, r.susp)
                    /\ UNCHANGED <<failed, errs, raised, ioFail>>
           ELSE /\ failed' = failed \cup {[id |-> w.id, owner |-> w.owner]}
                /\ ioFail' = (ioFail \/ ~w.dead)
                /\ streamQ' = sq1
                /\ isWriting' = FALSE
                /\ IF CatchesWriteError
                   THEN errs' = errs \cup {"write"} /\ raised' = raised
                   ELSE errs' = errs /\ raised' = raised \cup {w.owner}
                /\ ResumeOwner(w.owner, FALSE)
                /\ writeQueue' = QueueAfterFailedWrite(writeQueue, w)
                /\ UNCHANGED <<fs, written, handed, lost>>
    /\ UNCHANGED <<session, rotatedOut, isInitialized, streamVars, nextId, console,
                   histVars>>

\* dispose, line 237
DisposeCall ==
    /\ dispPc = "idle"
    /\ dispReady' = isInitialized
    /\ dispSnap' = Ids(writeQueue)
    /\ LET r == ProcessWriteQueue(DispTask, isWriting, isInitialized, writeQueue,
                                  streamQ, logStream, streamSt)
       IN  /\ ApplyDrain(r)
           /\ dispPc' = IF r.susp THEN "drain" ELSE "ret1"
    /\ UNCHANGED <<session, fsVars, isInitialized, streamVars, initPc, logs, nextId,
                   early, written, failed, console, errs, raised, ioFail, closingId>>

\* dispose, lines 247-257: close the stream if there is one, else mark not ready
DisposeClose ==
    IF ClosesStream(logStream)
    THEN /\ streamSt' = IF streamSt = "open" THEN "ending" ELSE streamSt
         /\ dispPc' = "end"
         /\ UNCHANGED <<isInitialized, logStream, streamBad>>
    ELSE /\ isInitialized' = ReadyAfterDispose
         /\ dispPc' = "done"
         /\ UNCHANGED streamVars

\* dispose, lines 240-244: after the first drain, the closing record is logged
DisposeRet1 ==
    /\ dispPc = "ret1"
    /\ IF LogsClosingRecord(isInitialized)
       THEN LET r == LogBody(DispTask, ShortLine, isWriting, isInitialized,
                             writeQueue, streamQ, logStream, streamSt)
            IN  /\ ApplyDrain(r)
                /\ dispPc' = IF r.susp THEN "logDrain" ELSE "logRet"
                /\ nextId' = nextId + 1
                /\ closingId' = nextId
                /\ UNCHANGED <<isInitialized, streamVars>>
       ELSE /\ DisposeClose
            /\ UNCHANGED <<writeQueue, streamQ, isWriting, handed, lost, nextId,
                           closingId>>
    /\ UNCHANGED <<session, fsVars, initPc, logs, early, written, failed, console,
                   errs, raised, ioFail, dispReady, dispSnap>>

\* dispose, lines 246-257: after the closing record
DisposeLogRet ==
    /\ dispPc = "logRet"
    /\ DisposeClose
    /\ UNCHANGED <<session, fsVars, streamQ, isWriting, writeQueue, initPc, logs,
                   nextId, written, handed, lost, failed, console, errs, raised,
                   ioFail, histVars>>

\* dispose, lines 248-260: the callback of end() is called once the writes handed
\* to the stream before it are done
EndAck(ok) ==
    /\ dispPc = "end"
    /\ \A i \in DOMAIN streamQ : streamQ[i].dead
    /\ dispPc' = "done"
    /\ IF ok
       THEN /\ streamSt' = "closed"
            /\ logStream' = FALSE
            /\ isInitialized' = ReadyAfterDispose
            /\ UNCHANGED <<errs, ioFail>>
       ELSE /\ errs' = errs \cup {"dispose"}
            /\ ioFail' = TRUE
            /\ UNCHANGED <<streamSt, logStream, isInitialized>>
    /\ UNCHANGED <<session, fsVars, streamBad, streamQ, isWriting, writeQueue, initPc,
                   logs, nextId, written, handed, lost, failed, console, raised,
                   histVars>>

\* the process ends and a new FileLogger is constructed on the same directory
Restart(maxSessions) ==
    /\ session < maxSessions
    /\ session' = session + 1
    /\ isInitialized' = FALSE
    /\ logStream' = FALSE
    /\ streamSt' = "none"
    /\ streamBad' = FALSE
    /\ streamQ' = <<>>
    /\ isWriting' = FALSE
    /\ writeQueue' = <<>>
    /\ initPc' = "mkdir"
    /\ dispPc' = "idle"
    /\ logs' = {}
    /\ nextId' = 1
    /\ early' = 0
    /\ written' = <<>>
    /\ handed' = <<>>
    /\ lost' = {}
    /\ failed' = {}
    /\ console' = {}
    /\ errs' = {}
    /\ raised' = {}
    /\ ioFail' = FALSE
    /\ dispReady' = FALSE
    /\ dispSnap' = {}
    /\ closingId' = 0
    /\ UNCHANGED fsVars

Next ==
    \/ \E ok \in BOOLEAN : MkdirAck(ok)
    \/ StatAck(TRUE)
    \/ \E bad \in BOOLEAN : OpenStream(bad)
    \/ InitRet1
    \/ InitLogRet
    \/ \E level \in Levels : LogCall(level, ShortLine)
    \/ \E t \in logs : LogReturn(t)
    \/ \E i \in DOMAIN streamQ, ok \in BOOLEAN : WriteAck(i, ok)
    \/ DisposeCall
    \/ DisposeRet1
    \/ DisposeLogRet
    \/ \E ok \in BOOLEAN : EndAck(ok)

Spec == Init /\ [][Next]_vars

\* The rotation scenario: writer instances constructed one after the other on the
\* same directory, each one starting without failure; callers log lines of any
\* length, and the process may end at any moment.
NextRot ==
    \/ MkdirAck(TRUE)
    \/ StatAck(TRUE)
    \/ RotateAck({})
    \/ OpenStream(FALSE)
    \/ InitRet1
    \/ InitLogRet
    \/ \E len \in LineLens : LogCall("INFO", len)
    \/ \E t \in logs : LogReturn(t)
    \/ WriteAck(1, TRUE)
    \/ Restart(MaxRotSessions)

SpecRot == Init /\ [][NextRot]_vars

\* Start-up with failures of the rotation check: writer instances constructed one
\* after the other on the same directory; stat and any operation of the rotation
\* may fail, everything else succeeds.
NextStart ==
    \/ MkdirAck(TRUE)
    \/ \E ok \in BOOLEAN : StatAck(ok)
    \/ \E fails \in SUBSET (0..(MaxLogFiles - 1)) : RotateAck(fails)
    \/ OpenStream(FALSE)
    \/ InitRet1
    \/ InitLogRet
    \/ \E len \in LineLens : LogCall("INFO", len)
    \/ \E t \in logs : LogReturn(t)
    \/ WriteAck(1, TRUE)
    \/ Restart(MaxStartSessions)

SpecStart == Init /\ [][NextStart]_vars

\* One writer on which every file-system operation succeeds and dispose() is not
\* called.  The steps of the runtime (acknowledgments, resumption of suspended
\* tasks) are taken as long as one of them is possible; callers log when they like.
RuntimeSteps ==
    \/ \E ok \in BOOLEAN : MkdirAck(ok)
    \/ StatAck(TRUE)
    \/ OpenStream(FALSE)
    \/ InitRet1
    \/ InitLogRet
    \/ \E t \in logs : LogReturn(t)
    \/ WriteAck(1, TRUE)

NextLive ==
    \/ RuntimeSteps
    \/ \E level \in Levels : LogCall(level, ShortLine)

SpecLive == Init /\ [][NextLive]_vars /\ WF_vars(RuntimeSteps)

\* ------------------------------------------------------------------- claims
Min(a, b) == IF a < b THEN a ELSE b
Increasing(s) == \A i, j \in DOMAIN s : i < j => s[i] < s[j]
InitDrained == initPc \in {"ret1", "logDrain", "logRet", "done"}
Chain(f) == {i \in 1..MaxLogFiles : f[i].gen # 0}

\* C1: the records logged before the writer became ready are all in the file, in
\* call order, once initialization has succeeded and its drain has ended without a
\* write failure.
C1_EarlyRecordsPersisted ==
    (InitDrained /\ failed = {}) =>
        /\ Len(written) >= early
        /\ \A i \in 1..early : written[i] = i

C1_Witness ==
    InitDrained /\ failed = {} /\ early >= 2 /\ Len(written) >= 2

\* C2: lines reach the stream, and the file, in the order in which they were
\* appended to the pending queue (lines are numbered in that order), whatever the
\* interleaving of the log() calls and of the acknowledgments.
C2_FifoOrder == Increasing(handed) /\ Increasing(written)

C2_Witness ==
    /\ Len(handed) >= 3
    /\ \E t \in logs : t.pc = "ret"
    /\ isWriting

\* C3: on a ready writer whose writes are all acknowledged with success and which
\* is not disposed, every line of the pending queue is eventually written and the
\* queue eventually becomes empty, without any further log() call.
C3_QueuedLineEventuallyWritten ==
    /\ \A id \in 1..(MaxLogs + 1) :
          [](isInitialized /\ id \in Ids(writeQueue) => <>(id \in Range(written)))
    /\ [](isInitialized => <>(writeQueue = <<>>))

C3_Witness ==
    /\ isInitialized
    /\ isWriting
    /\ \E t \in logs : t.pc = "ret" /\ t.id \in Ids(writeQueue)

\* C4: when dispose() is called on a ready writer and no operation of the file
\* system fails, every line that was in the pending queue at the call is written,
\* then the closing record, and the stream is closed when dispose() returns.
C4_DisposeFlushesPending ==
    (dispPc = "done" /\ dispReady /\ ~ioFail) =>
        /\ dispSnap \subseteq Range(written)
        /\ closingId \in Range(written)
        /\ streamSt = "closed"

\* C5: once dispose() has returned the writer is not ready and has no open stream,
\* at whatever point of the lifecycle dispose() was called.
C5_DisposedStaysClosed ==
    dispPc = "done" =>
        /\ ~isInitialized
        /\ ~logStream
        /\ streamSt \notin {"open", "ending"}

\* C6: on a writer whose initialization failed at the creation of the directory,
\* every step of dispose() leaves the pending queue unchanged, hands nothing to a
\* stream, opens and closes no stream, leaves the writer not ready and raises
\* nothing; dispose() returns.
C6_DisposeAfterFailedInit ==
    [][(initPc = "failed" /\ session' = session /\ dispPc' # dispPc) =>
          /\ writeQueue' = writeQueue
          /\ streamQ' = streamQ
          /\ handed' = handed
          /\ written' = written
          /\ streamSt' = "none"
          /\ ~logStream'
          /\ ~isInitialized'
          /\ raised' = {}
          /\ dispPc' \in {"ret1", "done"}]_vars

C6_Witness ==
    initPc = "failed" /\ dispPc = "done" /\ Len(writeQueue) >= 1

C8_ConsoleEmittedWithinCall ==
    \A t \in logs : EmitsToConsole(t.level) => t.id \in console

\* C9: a rotation on a chain .1 .. .k with k < N leaves the chain .1 .. .k+1, each
\* former generation .i as .i+1 and the former active file as .1.
C9_RotationExtendsChain ==
    [][(initPc = "rotate" /\ initPc' = "open") =>
          LET k == Cardinality(Chain(fs))
          IN  (Chain(fs) = 1..k /\ k < MaxLogFiles) =>
                  /\ Chain(fs') = 1..(k + 1)
                  /\ \A i \in 1..k : fs'[i + 1] = fs[i]
                  /\ fs'[1] = fs[0]
                  /\ fs'[0] = NoFile]_vars

\* C10: the newest N rotated-out files are retained: generation .j is the j-th
\* most recently rotated-out file, for every j up to N.
C10_NewestGenerationsRetained ==
    LET n == Len(rotatedOut)
    IN  \A j \in 1..Min(n, MaxLogFiles) : fs[j].gen = rotatedOut[n - j + 1]

RotationCheckRunning == initPc \in {"stat", "rotate"}
Layout(f) == [i \in 0..MaxLogFiles |-> f[i].gen]

\* C11: a failure of the rotation check (stat, or any delete or rename of the
\* rotation) does not abort start-up: the check always hands over to the opening
\* of the stream, the writer is then ready with its stream, and the records queued
\* during initialization are drained, in order.
C11_RotationFailureKeepsStartup ==
    /\ ioFail => initPc # "failed"
    /\ (ioFail /\ ~RotationCheckRunning /\ initPc # "open") =>
          /\ isInitialized
          /\ logStream
          /\ streamSt = "open"
          /\ fs[0].gen # 0
    /\ (ioFail /\ InitDrained) =>
          /\ Len(written) >= early
          /\ \A i \in 1..early : written[i] = i

C11_Witness ==
    /\ ioFail
    /\ "stat" \in errs \/ "rotate" \in errs
    /\ InitDrained
    /\ early >= 1
    /\ Len(written) >= early

\* C14: the rotation check runs only during initialization, before the stream is
\* opened: while it runs there is no stream and no write in flight, and a step that
\* renames or deletes a log file is taken with no stream, nothing in flight and the
\* writer not ready, however large the active file is.
C14_RotationBeforeStream ==
    [][/\ RotationCheckRunning' =>
              (streamSt' = "none" /\ ~logStream' /\ streamQ' = <<>> /\ ~isInitialized')
       /\ (\E i \in 1..MaxLogFiles : fs'[i] # fs[i]) =>
              /\ initPc = "rotate"
              /\ streamSt = "none" /\ streamSt' = "none"
              /\ streamQ = <<>> /\ streamQ' = <<>>
              /\ ~isInitialized /\ ~isInitialized'
       /\ (isInitialized /\ session' = session) => Layout(fs') = Layout(fs)]_vars

C14_Witness ==
    /\ isInitialized
    /\ streamSt = "open"
    /\ fs[0].gen # 0 /\ NeedsRotation(fs[0].size)
    /\ fs[1].gen # 0
    /\ streamQ # <<>>

IsPrefix(s, t) == Len(s) <= Len(t) /\ SubSeq(t, 1, Len(s)) = s
ActiveDrains ==
    {t.id : t \in {u \in logs : u.pc = "drain"}}
        \cup (IF initPc \in {"drain", "logDrain"} THEN {-1} ELSE {})
        \cup (IF dispPc \in {"drain", "logDrain"} THEN {-2} ELSE {})
LiveWrites == {i \in DOMAIN streamQ : ~streamQ[i].dead}
FailedIds == {f.id : f \in failed}
InFlightIds == Ids(streamQ)

\* C12: once the creation of the directory has failed, nothing is raised, the
\* writer is never ready, no stream is opened, no line is handed to a stream or
\* written, and every step leaves the pending queue as it was or with one more
\* line at its tail: log() only appends and the queue never shrinks.
C12_FailedMkdirOnlyQueues ==
    [][(initPc' = "failed" /\ session' = session) =>
          /\ raised' = {}
          /\ "init" \in errs'
          /\ ~isInitialized'
          /\ ~logStream'
          /\ streamSt' = "none"
          /\ handed' = <<>> /\ written' = <<>> /\ lost' = {}
          /\ IsPrefix(writeQueue, writeQueue')
          /\ nextId' # nextId =>
                /\ Len(writeQueue') = Len(writeQueue) + 1
                /\ writeQueue'[Len(writeQueue')].id = nextId
                /\ logs' = logs]_vars

C12_Witness ==
    /\ initPc = "failed"
    /\ dispPc = "done"
    /\ Len(writeQueue) >= 2

\* C13: at most one drain is active at any time, in every interleaving of
\* initialize(), log() and dispose(); a call of log() or dispose() that finds a
\* drain in progress hands nothing to the stream.
C13_SingleDrain ==
    [][/\ Cardinality(ActiveDrains') <= 1
       /\ (ActiveDrains' # {}) = isWriting'
       /\ (isWriting /\ session' = session
             /\ (nextId' # nextId \/ (dispPc = "idle" /\ dispPc' # "idle"))) =>
              (handed' = handed /\ streamQ' = streamQ)]_vars

C13_Witness ==
    /\ isWriting
    /\ dispPc = "logRet"
    /\ \E t \in logs : t.pc = "ret"
    /\ Len(writeQueue) >= 2

\* C15: whenever the writer is ready, the directory was created, the rotation
\* check has finished and the stream was opened with success.
C15_ReadyMeansStreamOpened ==
    isInitialized =>
        /\ initPc \notin {"mkdir", "stat", "rotate", "open", "failed"}
        /\ logStream
        /\ ~streamBad

\* C16 (as stated): while a write is in flight the line being written is still in
\* the pending queue, and one write at most is in flight.
C16_InFlightLineStillQueued ==
    /\ InFlightIds \subseteq Ids(writeQueue)
    /\ Cardinality(LiveWrites) <= 1

\* C16 (amended): a line is taken off the pending queue when it is handed to the
\* stream, before its write is acknowledged: the line in flight is not in the
\* queue, whose length does not count it; the next line is handed to the stream
\* only after the acknowledgment of the previous one.
C16_InFlightLineOffQueue ==
    /\ InFlightIds \cap Ids(writeQueue) = {}
    /\ Len(streamQ) <= 1
    /\ Len(handed) = Len(written) + Cardinality(failed) + Len(streamQ)

C16_Witness ==
    /\ Len(streamQ) = 1
    /\ Len(writeQueue) >= 1
    /\ dispPc = "logRet"

\* C17: a line whose write failed was reported on the fallback channel and is
\* discarded: it is not in the pending queue, not in flight again and not in the
\* file, and it was handed to the stream once.
C17_FailedLineDiscarded ==
    \A f \in failed :
        /\ "write" \in errs
        /\ f.id \notin Ids(writeQueue)
        /\ f.id \notin InFlightIds
        /\ f.id \notin Range(written)
        /\ Cardinality({i \in DOMAIN handed : handed[i] = f.id}) = 1

C17_Witness ==
    \E f \in failed : \E i \in DOMAIN written : written[i] > f.id

\* C18: a write failure loses the failed line only: the step leaves the pending
\* queue as it was, releases the single-flight guard and ends the drain; every
\* line pushed so far is in the queue, in flight, in the file or failed, and the
\* lines behind the failed one reach the stream in their order.
C18_FailureLosesOneLine ==
    [][/\ (failed' # failed /\ session' = session) =>
              /\ writeQueue' = writeQueue
              /\ ~isWriting'
              /\ ActiveDrains' = {}
              /\ Cardinality(failed') = Cardinality(failed) + 1
       /\ lost' = {}
       /\ Ids(writeQueue') \cup InFlightIds' \cup Range(written') \cup FailedIds'
              = 1..(nextId' - 1)
       /\ Increasing(handed')
       /\ \A i \in 1..(Len(writeQueue') - 1) :
              writeQueue'[i].id < writeQueue'[i + 1].id]_vars

C18_Witness ==
    \E f \in failed :
        /\ f.owner.kind = "init"
        /\ f.id < early
        /\ f.id + 1 \in Range(written)

\* C19: no line is handed to the stream twice, and a line is either still in the
\* pending queue or was taken by a drain, never both.
C19_HandedAtMostOnce ==
    /\ \A i, j \in DOMAIN handed : i # j => handed[i] # handed[j]
    /\ Ids(writeQueue) \cap Range(handed) = {}
    /\ \A i, j \in DOMAIN writeQueue : i # j => writeQueue[i].id # writeQueue[j].id

C19_Witness ==
    /\ Len(handed) >= 3
    /\ dispPc \in {"logDrain", "end"}
    /\ initPc = "done"

\* C20: a ready writer has a stream, and no drain takes a line off the queue
\* without handing it to the stream.
C20_ReadyHasStream ==
    /\ isInitialized => logStream
    /\ lost = {}

C20_Witness ==
    /\ isInitialized
    /\ isWriting
    /\ dispPc = "end"
    /\ Len(writeQueue) >= 1

====
